---- MODULE Spec2Model ----
(***************************************************************************)
(* dcgp::expression<T> (include/dcgp/expression.hpp): the chromosome of a  *)
(* Cartesian-genetic-programming expression, its gene bounds, its active   *)
(* nodes and genes, and the operations that replace or mutate genes.       *)
(*                                                                         *)
(* std::vector<unsigned> is a sequence; the code's 0-based v[i] is         *)
(* At(v, i).  A call of a public member function is one step: the step     *)
(* holds the whole body, every update_active() it runs included, and       *)
(* leaves in `call` what the caller passed and whether the call threw.     *)
(* The caller's next step, Return, drops that record.                      *)
(***************************************************************************)
EXTENDS Integers, Sequences, FiniteSets, TLC

(***************************************************************************)
(* Bounds of the model.                                                    *)
(***************************************************************************)
\* largest number of inputs n, outputs m, rows r, columns c, levels-back l
MaxN == 2
MaxM == 2
MaxR == 2
MaxC == 2
MaxL == 2
\* largest arity and largest number of basis functions
MaxArity == 2
MaxF == 2
\* longest chromosome, and most in-bounds chromosomes, of a modelled topology
MaxGenes == 7
MaxChromosomes == 12
\* longest index list passed to mutate(idxs), largest N of mutate_random(N)
\* and mutate_active(N)
MaxIdxs == 2
MaxMut == 2
\* `unsigned` arithmetic wraps at this modulus (scaled down from 2^32: every
\* value of the model is far below it unless a subtraction underflows)
UnsignedMod == 65536

\* evaluation inputs take their values in 2 .. MaxInput
MaxInput == 3
\* rounds of the frontier loop of update_active() that are followed step by step
MaxRounds == 4

VARIABLES m_n, m_m, m_r, m_c, m_l, m_arity, m_f,
          m_lb, m_ub, m_x, m_active_nodes, m_active_genes, call, local

topology == <<m_n, m_m, m_r, m_c, m_l, m_arity, m_f, m_lb, m_ub>>
vars == <<m_n, m_m, m_r, m_c, m_l, m_arity, m_f,
          m_lb, m_ub, m_x, m_active_nodes, m_active_genes, call, local>>

(***************************************************************************)
(* Vectors and unsigned arithmetic.                                        *)
(***************************************************************************)
\* unsigned arithmetic: the result modulo the word size
U(v) == v % UnsignedMod

\* v[i], 0-based
At(v, i) == v[i + 1]

\* v[i] = val, 0-based
Put(v, i, val) == [v EXCEPT ![i + 1] = val]

\* std::vector<unsigned>(len, 0)
ZeroVec(len) == [g \in 1..len |-> 0]

Range(v) == {v[g] : g \in 1..Len(v)}

Min(S) == CHOOSE a \in S : \A b \in S : a <= b

\* std::sort followed by erase(std::unique): the elements, ascending, once each
RECURSIVE SortedSeq(_)
SortedSeq(S) == IF S = {} THEN <<>>
                ELSE <<Min(S)>> \o SortedSeq(S \ {Min(S)})

SortUnique(v) == SortedSeq(Range(v))

(***************************************************************************)
(* The constructor: sanity checks and gene bounds.                         *)
(***************************************************************************)
\* the constructor throws unless all of these hold
SanityChecks(n, m, r, c, l, arity, nf) ==
    /\ n # 0
    /\ m # 0
    /\ c # 0
    /\ r # 0
    /\ l # 0
    /\ ~(arity < 2)
    /\ nf # 0

\* the size the three vectors are constructed with
NumGenes == U((m_arity + 1) * m_r * m_c + m_m)

\* first output gene
OutputStart == U((m_arity + 1) * m_r * m_c)

\* the gene at 0-based position p: its node's column, and its place in the block
ColumnOf(p) == (p \div (m_arity + 1)) \div m_r
PlaceOf(p) == p % (m_arity + 1)

\* UpperBounds letting a connection gene reach its own column
UpperBounds_OwnColumn ==
    [g \in 1..NumGenes |->
        LET p == g - 1
        IN  IF p >= OutputStart THEN U(m_n + m_r * m_c - 1)
            ELSE IF PlaceOf(p) = 0 THEN U(m_f - 1)
            ELSE U(m_n + (ColumnOf(p) + 1) * m_r - 1)]

\* upper bounds: function genes, then output genes, then connection genes
UpperBounds ==
    [g \in 1..NumGenes |->
        LET p == g - 1
        IN  IF p >= OutputStart THEN U(m_n + m_r * m_c - 1)
            ELSE IF PlaceOf(p) = 0 THEN U(m_f - 1)
            ELSE U(m_n + ColumnOf(p) * m_r - 1)]

\* LowerBounds with the levels-back window forgotten: every lower bound is 0
LowerBounds_NoWindow == [g \in 1..NumGenes |-> 0]

\* LowerBounds without the guards i >= l and l <= c: the subtractions underflow
LowerBounds_Unguarded ==
    [g \in 1..NumGenes |->
        LET p == g - 1
            i == ColumnOf(p)
        IN  IF p >= OutputStart THEN U(m_n + m_r * U(m_c - m_l))
            ELSE IF PlaceOf(p) = 0 THEN 0
            ELSE U(m_n + m_r * U(i - m_l))]

\* lower bounds: 0 unless the levels-back window excludes the inputs
LowerBounds ==
    [g \in 1..NumGenes |->
        LET p == g - 1
            i == ColumnOf(p)
        IN  IF p >= OutputStart
            THEN IF m_l <= m_c THEN U(m_n + m_r * U(m_c - m_l)) ELSE 0
            ELSE IF PlaceOf(p) = 0 THEN 0
            ELSE IF i >= m_l THEN U(m_n + m_r * U(i - m_l)) ELSE 0]

\* every value std::uniform_int_distribution<unsigned>(lo, hi)(m_e) can return.
\* The distribution requires lo <= hi; without it the behaviour is undefined and
\* the draw ranges over the wrapped interval, of which 0..hi is the part kept.
Uniform(lo, hi) == IF lo <= hi THEN lo..hi ELSE 0..hi

\* the chromosomes whose first k genes are drawn within their bounds
RECURSIVE Drawn(_)
Drawn(k) == IF k = 0 THEN {<<>>}
            ELSE {Append(p, v) : p \in Drawn(k - 1),
                                 v \in Uniform(m_lb[k], m_ub[k])}

\* how many chromosomes the bounds allow
RECURSIVE CountDrawn(_)
CountDrawn(k) == IF k = 0 THEN 1
                 ELSE CountDrawn(k - 1) * Cardinality(Uniform(m_lb[k], m_ub[k]))

(***************************************************************************)
(* update_active(): the active nodes, then the active genes.               *)
(***************************************************************************)
\* Connections with the loop bound i < m_arity: the last connection is skipped
RECURSIVE Connections_SkipLast(_, _)
Connections_SkipLast(x, current) ==
    IF current = <<>> THEN <<>>
    ELSE LET node_id == Head(current)
         IN  (IF node_id >= m_n
              THEN [i \in 1..(m_arity - 1) |->
                        At(x, U(node_id - m_n) * (m_arity + 1) + i)]
              ELSE <<>>)
             \o Connections_SkipLast(x, Tail(current))

\* the connection genes of the internal nodes of `current`, in order
RECURSIVE Connections(_, _)
Connections(x, current) ==
    IF current = <<>> THEN <<>>
    ELSE LET node_id == Head(current)
         IN  (IF node_id >= m_n
              THEN [i \in 1..m_arity |-> At(x, U(node_id - m_n) * (m_arity + 1) + i)]
              ELSE <<>>)
             \o Connections(x, Tail(current))

\* what one round of the do-while appends to m_active_nodes: the frontier, and
\* once more each input node of it
RECURSIVE InputsOf(_)
InputsOf(current) ==
    IF current = <<>> THEN <<>>
    ELSE (IF Head(current) >= m_n THEN <<>> ELSE <<Head(current)>>)
         \o InputsOf(Tail(current))

\* the do-while loop: m_active_nodes before the final sort
RECURSIVE Frontier(_, _, _)
Frontier(x, current, nodes) ==
    LET appended == nodes \o current \o InputsOf(current)
        next == SortUnique(Connections(x, current))
    IN  IF Len(next) > 0 THEN Frontier(x, next, appended) ELSE appended

\* current at the beginning: the output genes
OutputConnections(x) == [i \in 1..m_m |-> At(x, OutputStart + (i - 1))]

\* m_active_nodes after update_active()
ActiveNodes(x) == SortUnique(Frontier(x, OutputConnections(x), <<>>))

\* NodeGenes with the loop bound j < m_arity: the last gene of a block is skipped
RECURSIVE NodeGenes_SkipLast(_, _)
NodeGenes_SkipLast(nodes, k) ==
    IF k > Len(nodes) THEN <<>>
    ELSE (IF nodes[k] >= m_n
          THEN LET idx == U(nodes[k] - m_n) * (m_arity + 1)
               IN  [j \in 1..m_arity |-> idx + (j - 1)]
          ELSE <<>>)
         \o NodeGenes_SkipLast(nodes, k + 1)

\* the genes of the internal nodes among nodes[k..], in order
RECURSIVE NodeGenes(_, _)
NodeGenes(nodes, k) ==
    IF k > Len(nodes) THEN <<>>
    ELSE (IF nodes[k] >= m_n
          THEN LET idx == U(nodes[k] - m_n) * (m_arity + 1)
               IN  [j \in 1..(m_arity + 1) |-> idx + (j - 1)]
          ELSE <<>>)
         \o NodeGenes(nodes, k + 1)

\* m_active_genes after update_active(), given the new m_active_nodes
ActiveGenes(nodes) ==
    NodeGenes(nodes, 1) \o [i \in 1..m_m |-> m_r * m_c * (m_arity + 1) + (i - 1)]

(***************************************************************************)
(* is_valid(x)                                                             *)
(***************************************************************************)
\* is_valid without the comparison against the lower bound
is_valid_NoLowerCheck(x) ==
    IF Len(x) # Len(m_lb) THEN FALSE
    ELSE ~ \E i \in 0..(Len(x) - 1) : At(x, i) > At(m_ub, i)

is_valid(x) ==
    IF Len(x) # Len(m_lb) THEN FALSE
    ELSE ~ \E i \in 0..(Len(x) - 1) :
                (At(x, i) > At(m_ub, i)) \/ (At(x, i) < At(m_lb, i))

(***************************************************************************)
(* The object between and during calls.  A member function works on a      *)
(* record of the fields it can change: x, nodes and genes are m_x,         *)
(* m_active_nodes and m_active_genes; err says that it threw; updates      *)
(* counts the runs of update_active(); drawn lists the gene indices handed *)
(* to a resampling, in order; posok says that every position drawn into    *)
(* m_active_genes so far was below its size.                               *)
(***************************************************************************)
This == [x |-> m_x, nodes |-> m_active_nodes, genes |-> m_active_genes,
         err |-> FALSE, updates |-> 0, drawn |-> <<>>, posok |-> TRUE]

\* m_active_genes[idx]: the read, and the note of whether idx was in range
ActiveGeneAt(o, idx) == At(o.genes, idx)
Indexed(o, idx) == [o EXCEPT !.posok = @ /\ idx < Len(o.genes)]

update_active(o) ==
    LET nodes == ActiveNodes(o.x)
    IN  [o EXCEPT !.nodes = nodes,
                  !.genes = ActiveGenes(nodes),
                  !.updates = @ + 1]

\* throw std::invalid_argument: the body stops here
Throw(o) == [o EXCEPT !.err = TRUE]

\* Resample drawing from [0, ub]: the lower bound is ignored
Resample_FromZero(x, idx) == Uniform(0, At(m_ub, idx)) \ {At(x, idx)}

\* Resample without the rejection loop: the old value may be drawn again
Resample_MayRepeat(x, idx) == Uniform(At(m_lb, idx), At(m_ub, idx))

\* the values the rejection loop do { new_value = uniform(lb, ub) }
\* while (new_value == m_x[idx]) can leave with
Resample(x, idx) == Uniform(At(m_lb, idx), At(m_ub, idx)) \ {At(x, idx)}

\* mutate(unsigned idx)
mutate(o, idx) ==
    IF idx >= Len(o.x) THEN {Throw(o)}
    ELSE IF At(m_lb, idx) < At(m_ub, idx)
         THEN {update_active([o EXCEPT !.x = Put(o.x, idx, new_value),
                                       !.drawn = Append(@, idx)])
                 : new_value \in Resample(o.x, idx)}
         ELSE {[o EXCEPT !.drawn = Append(@, idx)]}

\* mutate(std::vector<unsigned> idxs): the for loop from position i on
RECURSIVE mutate_idxs_loop(_, _, _, _)
mutate_idxs_loop(o, idxs, i, flag) ==
    IF ~(i < Len(idxs)) THEN {IF flag THEN update_active(o) ELSE o}
    ELSE IF At(idxs, i) >= Len(o.x) THEN {Throw(o)}
    ELSE IF At(m_lb, At(idxs, i)) < At(m_ub, At(idxs, i))
         THEN UNION {mutate_idxs_loop([o EXCEPT !.x = Put(o.x, At(idxs, i), new_value),
                                                !.drawn = Append(@, At(idxs, i))],
                                      idxs, i + 1, TRUE)
                       : new_value \in Resample(o.x, At(idxs, i))}
         ELSE mutate_idxs_loop([o EXCEPT !.drawn = Append(@, At(idxs, i))],
                               idxs, i + 1, flag)

mutate_idxs(o, idxs) == mutate_idxs_loop(o, idxs, 0, FALSE)

\* mutate_random(unsigned N): the for loop from iteration i on
RECURSIVE mutate_random_loop(_, _, _, _)
mutate_random_loop(o, N, i, flag) ==
    IF ~(i < N) THEN {IF flag THEN update_active(o) ELSE o}
    ELSE UNION {
           IF At(m_lb, idx) < At(m_ub, idx)
           THEN UNION {mutate_random_loop([o EXCEPT !.x = Put(o.x, idx, new_value),
                                                    !.drawn = Append(@, idx)],
                                          N, i + 1, TRUE)
                         : new_value \in Resample(o.x, idx)}
           ELSE mutate_random_loop([o EXCEPT !.drawn = Append(@, idx)], N, i + 1, flag)
           : idx \in Uniform(0, U(Len(m_lb) - 1))}

mutate_random(o, N) == mutate_random_loop(o, N, 0, FALSE)

\* mutate_active(unsigned N): the for loop from iteration i on
RECURSIVE mutate_active_loop(_, _, _)
mutate_active_loop(o, N, i) ==
    IF ~(i < N) \/ o.err THEN {o}
    ELSE UNION {
           UNION {mutate_active_loop(o2, N, i + 1)
                    : o2 \in mutate(Indexed(o, idx), ActiveGeneAt(o, idx))}
           : idx \in Uniform(0, U(Len(o.genes) - 1))}

mutate_active(o, N) == mutate_active_loop(o, N, 0)

\* BlockStart without the subtraction of the remainder: the gene itself
BlockStart_NoRemainder(gene) == U(gene)

\* m_active_genes[idx] - (m_active_genes[idx] % (m_arity + 1))
BlockStart(gene) == U(gene - (gene % (m_arity + 1)))

\* mutate_active_fgene without the guard, drawing over the whole of
\* m_active_genes
mutate_active_fgene_Unguarded(o) ==
    UNION {mutate(Indexed(o, idx), BlockStart(ActiveGeneAt(o, idx)))
             : idx \in Uniform(0, U(Len(o.genes) - 1))}

\* mutate_active_fgene()
mutate_active_fgene(o) ==
    IF Len(o.genes) > m_m
    THEN UNION {mutate(Indexed(o, idx), BlockStart(ActiveGeneAt(o, idx)))
                  : idx \in Uniform(0, U(Len(o.genes) - 1 - m_m))}
    ELSE {o}

\* mutate_active_cgene drawing the offset in [1, arity + 1]
mutate_active_cgene_PastBlock(o) ==
    IF Len(o.genes) > m_m
    THEN UNION {mutate(Indexed(o, idx), BlockStart(ActiveGeneAt(o, idx)) + k)
                  : idx \in Uniform(0, U(Len(o.genes) - 1 - m_m)),
                    k \in Uniform(1, m_arity + 1)}
    ELSE {o}

\* mutate_active_cgene()
mutate_active_cgene(o) ==
    IF Len(o.genes) > m_m
    THEN UNION {mutate(Indexed(o, idx), BlockStart(ActiveGeneAt(o, idx)) + k)
                  : idx \in Uniform(0, U(Len(o.genes) - 1 - m_m)),
                    k \in Uniform(1, m_arity)}
    ELSE {o}

\* mutate_ogene()
mutate_ogene(o) ==
    UNION {mutate(Indexed(o, idx), ActiveGeneAt(o, idx))
             : idx \in IF m_m > 1
                       THEN Uniform(U(Len(o.genes) - m_m), U(Len(o.genes) - 1))
                       ELSE {U(Len(o.genes) - 1)}}

\* set without the assignment m_x = x
set_KeepsOld(o, x) ==
    IF ~is_valid(x) THEN Throw(o)
    ELSE update_active(o)

\* set(const std::vector<unsigned> &x)
set(o, x) ==
    IF ~is_valid(x) THEN Throw(o)
    ELSE update_active([o EXCEPT !.x = x])

(***************************************************************************)
(* operator()(in): evaluation.  The value type is the integers.  The basis *)
(* functions are the caller's: the function set held here is "sum" at      *)
(* index 0, "diff" at index 1 and "mul" at every further index.            *)
(***************************************************************************)
\* v[0] + ... + v[j - 1]
RECURSIVE SumTo(_, _)
SumTo(v, j) == IF j = 0 THEN 0 ELSE SumTo(v, j - 1) + v[j]

Sum(v) == SumTo(v, Len(v))

\* v[0] * ... * v[j - 1]
RECURSIVE ProductTo(_, _)
ProductTo(v, j) == IF j = 0 THEN 1 ELSE ProductTo(v, j - 1) * v[j]

Product(v) == ProductTo(v, Len(v))

\* v[0] - v[1] - ... - v[arity - 1]
Diff(v) == v[1] - (Sum(v) - v[1])

\* m_f[k](function_in)
Kernel(f, function_in) ==
    CASE f = 0 -> Sum(function_in)
      [] f = 1 -> Diff(function_in)
      [] OTHER -> Product(function_in)

\* U(): the value std::map<unsigned, U>::operator[] inserts for a key it does
\* not hold
DefaultValue == 0

\* the evaluation at its start: keys are the keys the std::map node holds and
\* node[k] the value it holds for key k; function_in is the argument vector;
\* evals counts the basis-function calls and unstored notes a read of a key
\* that node did not hold
EvalStart == [keys |-> {}, node |-> [k \in 0..(m_n + m_r * m_c - 1) |-> DefaultValue],
              function_in |-> ZeroVec(m_arity), evals |-> 0, unstored |-> FALSE]

\* node[k] as an rvalue: a key not held is inserted with U()
Lookup(st, k) ==
    IF k \in st.keys THEN st
    ELSE [st EXCEPT !.keys = @ \cup {k}, !.node[k] = DefaultValue, !.unstored = TRUE]

\* node[k] = val
Store(st, k, val) == [st EXCEPT !.keys = @ \cup {k}, !.node[k] = val]

\* for (j = 0; j < m_arity; ++j) function_in[j] = node[m_x[idx + j + 1]], from j on
RECURSIVE gather(_, _, _)
gather(st, idx, j) ==
    IF ~(j < m_arity) THEN st
    ELSE LET k   == At(m_x, idx + j + 1)
             st2 == Lookup(st, k)
         IN  gather([st2 EXCEPT !.function_in = Put(st2.function_in, j, st2.node[k])],
                    idx, j + 1)

\* for (auto i : m_active_nodes), from position p of m_active_nodes on
RECURSIVE evaluate_loop(_, _, _)
evaluate_loop(st, in, p) ==
    IF ~(p < Len(m_active_nodes)) THEN st
    ELSE LET i == At(m_active_nodes, p)
         IN  IF i < m_n
             THEN evaluate_loop(Store(st, i, At(in, i)), in, p + 1)
             ELSE LET idx == U((i - m_n) * (m_arity + 1))
                      st2 == gather(st, idx, 0)
                  IN  evaluate_loop(
                          [Store(st2, i, Kernel(At(m_x, idx), st2.function_in))
                              EXCEPT !.evals = @ + 1],
                          in, p + 1)

\* for (i = 0; i < m_m; ++i) retval[i] = node[m_x[(m_r * m_c) * (m_arity + 1) + i]]
RECURSIVE read_outputs(_, _, _)
read_outputs(st, retval, i) ==
    IF ~(i < m_m) THEN [ret |-> retval, evals |-> st.evals, unstored |-> st.unstored]
    ELSE LET k   == At(m_x, (m_r * m_c) * (m_arity + 1) + i)
             st2 == Lookup(st, k)
         IN  read_outputs(st2, Put(retval, i, st2.node[k]), i + 1)

\* the size test accepting every input of at least m_n values
evaluate_AcceptsLonger(in) ==
    IF Len(in) < m_n
    THEN [err |-> TRUE, ret |-> <<>>, evals |-> 0, unstored |-> FALSE]
    ELSE [err |-> FALSE] @@ read_outputs(evaluate_loop(EvalStart, in, 0),
                                         ZeroVec(m_m), 0)

\* operator()(const std::vector<U> &in)
evaluate(in) ==
    IF Len(in) # m_n
    THEN [err |-> TRUE, ret |-> <<>>, evals |-> 0, unstored |-> FALSE]
    ELSE [err |-> FALSE] @@ read_outputs(evaluate_loop(EvalStart, in, 0),
                                         ZeroVec(m_m), 0)

(***************************************************************************)
(* What callers pass.                                                      *)
(***************************************************************************)
\* gene indices: every index of the chromosome, and the first one past its end
IdxInputs == 0..NumGenes

RECURSIVE SeqsUpTo(_, _)
SeqsUpTo(S, k) == IF k = 0 THEN {<<>>}
                  ELSE SeqsUpTo(S, k - 1)
                       \cup {Append(p, v) : p \in {q \in SeqsUpTo(S, k - 1) : Len(q) = k - 1},
                                            v \in S}

\* index lists: every list of at most MaxIdxs such indices
IdxsInputs == SeqsUpTo(IdxInputs, MaxIdxs)

\* chromosomes: every in-bounds one; the all-zero one; one too short and one too
\* long; and, gene by gene, one just above the upper and one just below the lower
\* bound
ChromosomeInputs ==
    Drawn(NumGenes)
    \cup {ZeroVec(NumGenes), SubSeq(m_ub, 1, NumGenes - 1), Append(m_ub, 0)}
    \cup {Put(m_ub, i, At(m_ub, i) + 1) : i \in 0..(NumGenes - 1)}
    \cup {Put(m_lb, i, At(m_lb, i) - 1) : i \in {j \in 0..(NumGenes - 1) : At(m_lb, j) > 0}}

\* input values: 2 .. MaxInput, none of them U()
InputValues == 2..MaxInput

RECURSIVE SeqsOfLen(_, _)
SeqsOfLen(S, k) == IF k = 0 THEN {<<>>}
                   ELSE {Append(p, v) : p \in SeqsOfLen(S, k - 1), v \in S}

\* evaluation inputs: every sequence of m_n input values, one a value short and
\* one a value long
EvalInputs ==
    SeqsOfLen(InputValues, m_n)
    \cup {[j \in 1..(m_n - 1) |-> 2], [j \in 1..(m_n + 1) |-> 2]}

(***************************************************************************)
(* The state machine.                                                      *)
(***************************************************************************)
\* ret is what the call returned, evals the number of basis-function calls it
\* made, unstored whether it read a node value that had not been stored
NoCall == [op |-> "none", arg |-> <<>>, idxs |-> <<>>, N |-> 0,
           err |-> FALSE, updates |-> 0, drawn |-> <<>>, posok |-> TRUE,
           ret |-> <<>>, evals |-> 0, unstored |-> FALSE]

\* no member function is being followed step by step
NoLocal == [pc |-> "idle", current |-> <<>>, idx |-> 0, new_value |-> 0, rounds |-> 0]

\* the call ends (returns or throws) with the object as in o
Ends(o, op, arg, idxs, N) ==
    /\ m_x' = o.x
    /\ m_active_nodes' = o.nodes
    /\ m_active_genes' = o.genes
    /\ call' = [NoCall EXCEPT !.op = op, !.arg = arg, !.idxs = idxs, !.N = N,
                              !.err = o.err, !.updates = o.updates,
                              !.drawn = o.drawn, !.posok = o.posok]
    /\ UNCHANGED <<topology, local>>

\* the constructor, for every topology within the bounds of the model
Init ==
    \E n \in 0..MaxN, m \in 0..MaxM, r \in 0..MaxR, c \in 0..MaxC, l \in 0..MaxL,
       arity \in 0..MaxArity, nf \in 0..MaxF :
        /\ SanityChecks(n, m, r, c, l, arity, nf)
        /\ m_n = n /\ m_m = m /\ m_r = r /\ m_c = c /\ m_l = l
        /\ m_arity = arity /\ m_f = nf
        /\ NumGenes <= MaxGenes
        /\ m_lb = LowerBounds
        /\ m_ub = UpperBounds
        /\ CountDrawn(NumGenes) <= MaxChromosomes
        /\ m_x \in Drawn(NumGenes)
        /\ m_active_nodes = ActiveNodes(m_x)
        /\ m_active_genes = ActiveGenes(m_active_nodes)
        /\ call = NoCall
        /\ local = NoLocal

Set ==
    /\ call.op = "none"
    /\ \E x \in ChromosomeInputs : Ends(set(This, x), "set", x, <<>>, 0)

Mutate ==
    /\ call.op = "none"
    /\ \E idx \in IdxInputs : \E o \in mutate(This, idx) :
          Ends(o, "mutate", <<>>, <<idx>>, 0)

MutateIdxs ==
    /\ call.op = "none"
    /\ \E idxs \in IdxsInputs : \E o \in mutate_idxs(This, idxs) :
          Ends(o, "mutate_idxs", <<>>, idxs, 0)

MutateRandom ==
    /\ call.op = "none"
    /\ \E N \in 0..MaxMut : \E o \in mutate_random(This, N) :
          Ends(o, "mutate_random", <<>>, <<>>, N)

MutateActive ==
    /\ call.op = "none"
    /\ \E N \in 0..MaxMut : \E o \in mutate_active(This, N) :
          Ends(o, "mutate_active", <<>>, <<>>, N)

MutateActiveFgene ==
    /\ call.op = "none"
    /\ \E o \in mutate_active_fgene(This) : Ends(o, "mutate_active_fgene", <<>>, <<>>, 0)

MutateActiveCgene ==
    /\ call.op = "none"
    /\ \E o \in mutate_active_cgene(This) : Ends(o, "mutate_active_cgene", <<>>, <<>>, 0)

MutateOgene ==
    /\ call.op = "none"
    /\ \E o \in mutate_ogene(This) : Ends(o, "mutate_ogene", <<>>, <<>>, 0)

\* operator() is const: it returns or throws and the object is as it was
Evaluate ==
    /\ call.op = "none"
    /\ \E in \in EvalInputs :
          LET e == evaluate(in)
          IN  call' = [NoCall EXCEPT !.op = "evaluate", !.arg = in, !.err = e.err,
                                     !.ret = e.ret, !.evals = e.evals,
                                     !.unstored = e.unstored]
    /\ UNCHANGED <<topology, m_x, m_active_nodes, m_active_genes, local>>

\* the caller has seen the outcome of the call
Return ==
    /\ call.op # "none"
    /\ call' = NoCall
    /\ UNCHANGED <<topology, m_x, m_active_nodes, m_active_genes, local>>

Next ==
    \/ Set
    \/ Mutate
    \/ MutateIdxs
    \/ MutateRandom
    \/ MutateActive
    \/ MutateActiveFgene
    \/ MutateActiveCgene
    \/ MutateOgene
    \/ Evaluate
    \/ Return

Spec == Init /\ [][Next]_vars

(***************************************************************************)
(* The loops, step by step.  A second state machine over the same object   *)
(* follows the constructor's update_active() and then mutate(idx) calls    *)
(* one loop iteration at a time: local.pc is the position in the code      *)
(* ("do" the frontier loop, "sort" the code after it, "draw" and "test"    *)
(* the rejection loop, "idle" between calls), local.current the frontier,  *)
(* local.idx the gene being mutated, local.new_value the last draw and     *)
(* local.rounds the frontier rounds run so far.                            *)
(***************************************************************************)
\* update_active() up to the do: m_active_nodes cleared, current the outputs
EnterUpdate(x) == [NoLocal EXCEPT !.pc = "do", !.current = OutputConnections(x)]

\* the constructor up to its call of update_active()
StepInit ==
    \E n \in 0..MaxN, m \in 0..MaxM, r \in 0..MaxR, c \in 0..MaxC, l \in 0..MaxL,
       arity \in 0..MaxArity, nf \in 0..MaxF :
        /\ SanityChecks(n, m, r, c, l, arity, nf)
        /\ m_n = n /\ m_m = m /\ m_r = r /\ m_c = c /\ m_l = l
        /\ m_arity = arity /\ m_f = nf
        /\ NumGenes <= MaxGenes
        /\ m_lb = LowerBounds
        /\ m_ub = UpperBounds
        /\ CountDrawn(NumGenes) <= MaxChromosomes
        /\ m_x \in Drawn(NumGenes)
        /\ m_active_nodes = <<>>
        /\ m_active_genes = <<>>
        /\ call = NoCall
        /\ local = EnterUpdate(m_x)

\* one round of do { ... } while (current.size() > 0)
FrontierRound ==
    /\ local.pc = "do"
    /\ local.rounds < MaxRounds
    /\ LET next == SortUnique(Connections(m_x, local.current))
       IN  /\ m_active_nodes' = m_active_nodes \o local.current \o InputsOf(local.current)
           /\ local' = [local EXCEPT !.pc = IF Len(next) > 0 THEN "do" ELSE "sort",
                                     !.current = next,
                                     !.rounds = @ + 1]
    /\ UNCHANGED <<topology, m_x, m_active_genes, call>>

\* the rest of update_active(): sort and unique, then the active genes
SortAndGenes ==
    /\ local.pc = "sort"
    /\ m_active_nodes' = SortUnique(m_active_nodes)
    /\ m_active_genes' = ActiveGenes(m_active_nodes')
    /\ local' = NoLocal
    /\ UNCHANGED <<topology, m_x, call>>

\* mutate(idx) up to the do of the rejection loop, for a gene with lb < ub
EnterMutate ==
    /\ local.pc = "idle"
    /\ \E idx \in 0..(Len(m_x) - 1) :
          /\ At(m_lb, idx) < At(m_ub, idx)
          /\ local' = [NoLocal EXCEPT !.pc = "draw", !.idx = idx]
    /\ UNCHANGED <<topology, m_x, m_active_nodes, m_active_genes, call>>

\* new_value = uniform(lb, ub): the draw is the value the gene holds
DrawSame ==
    /\ local.pc = "draw"
    /\ At(m_x, local.idx) \in Uniform(At(m_lb, local.idx), At(m_ub, local.idx))
    /\ local' = [local EXCEPT !.pc = "test", !.new_value = At(m_x, local.idx)]
    /\ UNCHANGED <<topology, m_x, m_active_nodes, m_active_genes, call>>

\* new_value = uniform(lb, ub): the draw is another value
DrawDifferent ==
    /\ local.pc = "draw"
    /\ \E v \in Uniform(At(m_lb, local.idx), At(m_ub, local.idx)) \ {At(m_x, local.idx)} :
          local' = [local EXCEPT !.pc = "test", !.new_value = v]
    /\ UNCHANGED <<topology, m_x, m_active_nodes, m_active_genes, call>>

\* while (new_value == m_x[idx]): back to the draw, or on to the assignment
\* m_x[idx] = new_value and into update_active()
TestDraw ==
    /\ local.pc = "test"
    /\ IF local.new_value = At(m_x, local.idx)
       THEN /\ local' = [local EXCEPT !.pc = "draw"]
            /\ UNCHANGED <<m_x, m_active_nodes>>
       ELSE /\ m_x' = Put(m_x, local.idx, local.new_value)
            /\ m_active_nodes' = <<>>
            /\ local' = EnterUpdate(m_x')
    /\ UNCHANGED <<topology, m_active_genes, call>>

StepNext ==
    \/ FrontierRound
    \/ SortAndGenes
    \/ EnterMutate
    \/ DrawSame
    \/ DrawDifferent
    \/ TestDraw

\* the thread in a member function runs on (weak fairness of its steps), and
\* the random engine does not return the one excluded value for ever (strong
\* fairness of the draw of another value)
StepSpec ==
    /\ StepInit
    /\ [][StepNext]_vars
    /\ WF_vars(FrontierRound)
    /\ WF_vars(SortAndGenes)
    /\ WF_vars(TestDraw)
    /\ SF_vars(DrawDifferent)

(***************************************************************************)
(* What the claims speak of, stated without the code's algorithms.         *)
(***************************************************************************)
\* (arity+1)*r*c+m
ChromosomeLength == (m_arity + 1) * m_r * m_c + m_m

\* lb[i] <= x[i] <= ub[i] for every gene of a chromosome of the right length
InBounds(x) ==
    /\ Len(x) = ChromosomeLength
    /\ \A g \in 1..Len(x) : m_lb[g] <= x[g] /\ x[g] <= m_ub[g]

\* the node ids
InputNodes == 0..(m_n - 1)
InternalNodes == m_n..(m_n + m_r * m_c - 1)

\* the node ids the genes of chromosome x refer to
OutputTargets(x) == {x[(m_arity + 1) * m_r * m_c + q] : q \in 1..m_m}
ConnectionTargets(x, v) == {x[(v - m_n) * (m_arity + 1) + 1 + k] : k \in 1..m_arity}

\* the nodes reachable backward from the outputs: the least set that holds the
\* output targets and, with an internal node, its connection targets
RECURSIVE Closure(_, _)
Closure(x, R) ==
    LET R2 == R \cup UNION {ConnectionTargets(x, v) : v \in R \cap InternalNodes}
    IN  IF R2 = R THEN R ELSE Closure(x, R2)

Reachable(x) == Closure(x, OutputTargets(x))

StrictlyAscending(v) == \A a, b \in 1..Len(v) : a < b => v[a] < v[b]

\* the call that just ended ran update_active() to its end
Recomputed == call.updates > 0 /\ ~call.err

TopologyIs(n, m, r, c, l, arity, nf) ==
    /\ m_n = n /\ m_m = m /\ m_r = r /\ m_c = c /\ m_l = l
    /\ m_arity = arity /\ m_f = nf

(***************************************************************************)
(* C1: after construction and after every call, returned or thrown, get()  *)
(* has length (arity+1)*r*c+m and every gene lies within its bounds.       *)
(***************************************************************************)
C1_ChromosomeInBounds ==
    /\ Len(m_x) = ChromosomeLength
    /\ \A g \in 1..Len(m_x) : m_lb[g] <= m_x[g] /\ m_x[g] <= m_ub[g]

\* a mutate(idxs) call that threw after it had resampled a gene
C1_Witness ==
    /\ call.op = "mutate_idxs"
    /\ call.err
    /\ \E k \in 1..Len(call.drawn) : At(m_lb, call.drawn[k]) < At(m_ub, call.drawn[k])

(***************************************************************************)
(* C2: whenever a mutator call has returned or thrown, the active nodes    *)
(* and active genes are those recomputed from the current chromosome.      *)
(***************************************************************************)
C2_ActiveSetsCurrent ==
    call.op # "none" =>
        /\ m_active_nodes = ActiveNodes(m_x)
        /\ m_active_genes = ActiveGenes(ActiveNodes(m_x))

(***************************************************************************)
(* C3: mutate(idx) and mutate(idxs) given an index >= len(get()), at any   *)
(* position of the list, report an error and leave every gene unchanged.   *)
(***************************************************************************)
C3_OutOfRangeRejected ==
    [][(/\ call'.op \in {"mutate", "mutate_idxs"}
        /\ \E k \in 1..Len(call'.idxs) : call'.idxs[k] >= Len(m_x))
       => (call'.err /\ m_x' = m_x)]_vars

(***************************************************************************)
(* C4: with n=2, m=1, r=1, c=1, l=1, arity=2 and one basis function,       *)
(* forcing the chromosome to [0, 0, 0, 0] gives active_nodes == [0] and    *)
(* active_genes == [3].                                                    *)
(***************************************************************************)
C4_ForcedToZeros ==
    (TopologyIs(2, 1, 1, 1, 1, 2, 1) /\ call.op = "set" /\ call.arg = <<0, 0, 0, 0>>)
    => /\ ~call.err
       /\ m_x = <<0, 0, 0, 0>>
       /\ m_active_nodes = <<0>>
       /\ m_active_genes = <<3>>

\* C4 as amended: with l=1 the output gene is bound to [2, 2] and set rejects
\* [0, 0, 0, 0], leaving the chromosome as it was; with l >= 2 (l > c) the
\* chromosome is accepted and gives active_nodes == [0], active_genes == [3]
C4_ForcedToZerosNeedsLevelsBack ==
    (/\ m_n = 2 /\ m_m = 1 /\ m_r = 1 /\ m_c = 1 /\ m_arity = 2 /\ m_f = 1
     /\ call.op = "set" /\ call.arg = <<0, 0, 0, 0>>)
    => IF m_l = 1
       THEN call.err /\ m_x # <<0, 0, 0, 0>>
       ELSE /\ ~call.err
            /\ m_x = <<0, 0, 0, 0>>
            /\ m_active_nodes = <<0>>
            /\ m_active_genes = <<3>>

C4_Witness ==
    /\ TopologyIs(2, 1, 1, 1, 2, 2, 1)
    /\ call.op = "set" /\ call.arg = <<0, 0, 0, 0>> /\ ~call.err
    /\ m_active_nodes = <<0>>

(***************************************************************************)
(* C5: set(x) with x of wrong length or with a gene out of bounds reports  *)
(* a failure and leaves get(), get_active_nodes() and get_active_genes()   *)
(* as they were.                                                           *)
(***************************************************************************)
C5_InvalidSetRejected ==
    [][(call'.op = "set" /\ ~InBounds(call'.arg))
       => /\ call'.err
          /\ m_x' = m_x
          /\ m_active_nodes' = m_active_nodes
          /\ m_active_genes' = m_active_genes]_vars

\* a rejected chromosome of the right length with a gene below its lower bound
C5_Witness ==
    /\ call.op = "set" /\ call.err
    /\ Len(call.arg) = ChromosomeLength
    /\ \E g \in 1..Len(call.arg) : call.arg[g] < m_lb[g]

(***************************************************************************)
(* C6: for every x of length (arity+1)*r*c+m within the bounds, set(x)     *)
(* succeeds from any prior state and get() then returns exactly x.         *)
(***************************************************************************)
C6_SetGetRoundTrip ==
    (call.op = "set" /\ InBounds(call.arg)) => (~call.err /\ m_x = call.arg)

\* an accepted chromosome with an active internal node
C6_Witness ==
    /\ call.op = "set" /\ ~call.err /\ InBounds(call.arg)
    /\ \E v \in Range(m_active_nodes) : v >= m_n

(***************************************************************************)
(* C7: mutate(idx) with idx < len(get()): if lb[idx] < ub[idx] the gene    *)
(* takes a different value within its bounds, if lb[idx] == ub[idx] it is  *)
(* unchanged; every other gene is unchanged.                               *)
(***************************************************************************)
C7_MutateOneGene ==
    [][(call'.op = "mutate" /\ call'.idxs[1] < Len(m_x))
       => LET g == call'.idxs[1] + 1
          IN  /\ m_lb[g] < m_ub[g] =>
                    /\ m_x'[g] # m_x[g]
                    /\ m_lb[g] <= m_x'[g] /\ m_x'[g] <= m_ub[g]
              /\ m_lb[g] = m_ub[g] => m_x'[g] = m_x[g]
              /\ Len(m_x') = Len(m_x)
              /\ \A h \in 1..Len(m_x) : h # g => m_x'[h] = m_x[h]]_vars

\* a mutate(idx) that returned after resampling a gene with two or more values
C7_Witness ==
    /\ call.op = "mutate" /\ ~call.err
    /\ At(m_lb, call.idxs[1]) < At(m_ub, call.idxs[1])

(***************************************************************************)
(* C8: for every in-bounds chromosome, active_nodes is strictly ascending  *)
(* and holds exactly the nodes reachable backward from the output genes    *)
(* through the connection genes of internal nodes.  Stated of the          *)
(* recomputation applied to the chromosome between calls (every in-bounds  *)
(* chromosome is one) and of m_active_nodes after a call that ran it.      *)
(***************************************************************************)
C8_ActiveNodesAreReachable ==
    /\ call.op = "none" =>
          LET nodes == ActiveNodes(m_x)
          IN  StrictlyAscending(nodes) /\ Range(nodes) = Reachable(m_x)
    /\ Recomputed =>
          /\ StrictlyAscending(m_active_nodes)
          /\ Range(m_active_nodes) = Reachable(m_x)

\* update_active() has run on a chromosome with two active internal nodes, an
\* active input and a node that is not reachable
C8_Witness ==
    /\ Recomputed
    /\ Cardinality(Range(m_active_nodes) \cap InternalNodes) >= 2
    /\ Range(m_active_nodes) \cap InputNodes # {}
    /\ (InputNodes \cup InternalNodes) \ Range(m_active_nodes) # {}

(***************************************************************************)
(* C9: active_genes is, for each active internal node in ascending order,  *)
(* its arity+1 contiguous gene indices, then the m output-gene indices; its*)
(* length is >= m, and equals m exactly when every output gene points at   *)
(* an input node.                                                          *)
(***************************************************************************)
\* the arity+1 gene indices of internal node v
GeneBlock(v) == [j \in 1..(m_arity + 1) |-> (v - m_n) * (m_arity + 1) + (j - 1)]

RECURSIVE Blocks(_)
Blocks(nodes) == IF nodes = <<>> THEN <<>>
                 ELSE GeneBlock(Head(nodes)) \o Blocks(Tail(nodes))

OutputGeneIndices == [q \in 1..m_m |-> (m_arity + 1) * m_r * m_c + (q - 1)]

ExpectedGenes(x) ==
    Blocks(SortedSeq(Reachable(x) \cap InternalNodes)) \o OutputGeneIndices

GenesLayout(genes, x) ==
    /\ genes = ExpectedGenes(x)
    /\ Len(genes) >= m_m
    /\ SubSeq(genes, Len(genes) - m_m + 1, Len(genes)) = OutputGeneIndices
    /\ (Len(genes) = m_m) <=> (OutputTargets(x) \subseteq InputNodes)

\* C9: the layout holds of the recomputation applied to the chromosome between
\* calls, and of m_active_genes after a call that ran update_active()
C9_ActiveGenesLayout ==
    /\ call.op = "none" => GenesLayout(ActiveGenes(ActiveNodes(m_x)), m_x)
    /\ Recomputed => GenesLayout(m_active_genes, m_x)

\* update_active() has run on a chromosome whose outputs all point at inputs
C9_Witness ==
    /\ Recomputed
    /\ Len(m_active_genes) = m_m
    /\ OutputTargets(m_x) \subseteq InputNodes

(***************************************************************************)
(* C10: lb, ub and the chromosome have length (arity+1)*r*c+m, lb[i] <=    *)
(* ub[i] for every gene (no subtraction underflows), and ub[i] < n + r*c   *)
(* for every connection and output gene.                                   *)
(***************************************************************************)
C10_BoundsWellFormed ==
    /\ Len(m_lb) = ChromosomeLength
    /\ Len(m_ub) = ChromosomeLength
    /\ Len(m_x) = ChromosomeLength
    /\ \A g \in 1..ChromosomeLength :
          /\ 0 <= m_lb[g] /\ m_lb[g] <= m_ub[g]
          /\ (g > (m_arity + 1) * m_r * m_c \/ (g - 1) % (m_arity + 1) # 0)
                => m_ub[g] < m_n + m_r * m_c

\* a topology with a column at or beyond the levels-back distance (its
\* connection genes cannot reach the inputs) and with l <= c
C10_Witness ==
    /\ m_l < m_c
    /\ \E g \in 1..(m_arity + 1) * m_r * m_c :
          (g - 1) % (m_arity + 1) # 0 /\ m_lb[g] >= m_n
    /\ m_lb[ChromosomeLength] = m_n + m_r * (m_c - m_l)

(***************************************************************************)
(* C11: whenever active_genes.size() == m (no internal node is active),    *)
(* mutate_active_fgene() and mutate_active_cgene() report no error and     *)
(* leave the chromosome, active_nodes and active_genes unchanged.          *)
(***************************************************************************)
C11_NoActiveNodeNoOp ==
    [][(/\ call'.op \in {"mutate_active_fgene", "mutate_active_cgene"}
        /\ Len(m_active_genes) = m_m)
       => /\ ~call'.err
          /\ m_x' = m_x
          /\ m_active_nodes' = m_active_nodes
          /\ m_active_genes' = m_active_genes]_vars

\* mutate_active_fgene() has returned on an object whose active genes are the
\* output genes only, one of which could be resampled
C11_Witness ==
    /\ call.op = "mutate_active_fgene"
    /\ Len(m_active_genes) = m_m
    /\ call.drawn = <<>>
    /\ \E q \in 1..m_m : m_lb[ChromosomeLength - q + 1] < m_ub[ChromosomeLength - q + 1]

(***************************************************************************)
(* C12: for every in-bounds chromosome and every input sequence of length  *)
(* n, evaluation returns a sequence of length m whose q-th entry is the    *)
(* value of the expression rooted at the node output gene q references: an *)
(* input node has the value of its input, an internal node the value of    *)
(* its basis function applied to the values of its connection targets, in  *)
(* order.  In particular n=2, m=1, r=1, c=1, l=1, arity=2, function 0 the  *)
(* sum, chromosome [0, 0, 1, 2] and inputs [2, 3] give [5].                *)
(***************************************************************************)
\* the value of the expression rooted at node v
RECURSIVE ValueOf(_, _, _)
ValueOf(x, in, v) ==
    IF v < m_n THEN At(in, v)
    ELSE LET block == (v - m_n) * (m_arity + 1)
         IN  Kernel(At(x, block),
                    [j \in 1..m_arity |-> ValueOf(x, in, At(x, block + j))])

C12_EvaluatesExpression ==
    (call.op = "evaluate" /\ Len(call.arg) = m_n)
    => /\ ~call.err
       /\ Len(call.ret) = m_m
       /\ \A q \in 1..m_m :
             call.ret[q] = ValueOf(m_x, call.arg, m_x[(m_arity + 1) * m_r * m_c + q])
       /\ (/\ m_n = 2 /\ m_m = 1 /\ m_r = 1 /\ m_c = 1 /\ m_l = 1 /\ m_arity = 2
           /\ m_x = <<0, 0, 1, 2>> /\ call.arg = <<2, 3>>)
          => call.ret = <<5>>

(***************************************************************************)
(* C13: evaluation validates its input first and is read-only: an input    *)
(* whose length differs from n is rejected before any node is evaluated,   *)
(* and every evaluation call, returned or rejected, leaves the chromosome, *)
(* the bounds, active_nodes and active_genes unchanged.                    *)
(***************************************************************************)
C13_EvaluationReadOnly ==
    [][call'.op = "evaluate"
       => /\ Len(call'.arg) # m_n
             => (call'.err /\ call'.evals = 0 /\ call'.ret = <<>>)
          /\ Len(call'.arg) = m_n => ~call'.err
          /\ m_x' = m_x /\ m_lb' = m_lb /\ m_ub' = m_ub
          /\ m_active_nodes' = m_active_nodes
          /\ m_active_genes' = m_active_genes]_vars

\* an input one value too long was rejected by an object with an active
\* internal node, which a run of the evaluation loop would have evaluated
C13_Witness ==
    /\ call.op = "evaluate" /\ call.err
    /\ Len(call.arg) = m_n + 1
    /\ \E v \in Range(m_active_nodes) : v >= m_n

(***************************************************************************)
(* C14: every mutation operator that changes at least one gene performs    *)
(* exactly one active-set recomputation, after all of the call's gene      *)
(* changes; this holds for mutate(idxs), mutate_random(N) and              *)
(* mutate_active(N) with N > 1, so every index of one mutate_active(N)     *)
(* call is drawn from active_genes as it stood when the call began.        *)
(***************************************************************************)
MutationOps == {"mutate", "mutate_idxs", "mutate_random", "mutate_active",
                "mutate_active_fgene", "mutate_active_cgene", "mutate_ogene"}

\* the call resampled a gene that has two or more values
ChangedAGene(c) == \E k \in 1..Len(c.drawn) : At(m_lb, c.drawn[k]) < At(m_ub, c.drawn[k])

C14_SingleRecomputation ==
    [][/\ (call'.op \in MutationOps /\ ChangedAGene(call'))
          => /\ call'.updates = 1
             /\ m_active_nodes' = ActiveNodes(m_x')
       /\ call'.op = "mutate_active"
          => \A k \in 1..Len(call'.drawn) : call'.drawn[k] \in Range(m_active_genes)]_vars

(***************************************************************************)
(* C15: in every consistent state each connection gene of every active     *)
(* internal node references a node with a strictly smaller id that is      *)
(* itself in active_nodes, and each output gene references a node in       *)
(* active_nodes; hence the evaluation never reads the value of a node it   *)
(* has not already stored.  Stated of the recomputation applied to the     *)
(* chromosome between calls, of m_active_nodes after a call that ran it,   *)
(* and of every evaluation of an ascending m_active_nodes that is closed   *)
(* in this way.                                                            *)
(***************************************************************************)
ActiveClosed(nodes, x) ==
    /\ \A v \in Range(nodes) \cap InternalNodes :
          \A t \in ConnectionTargets(x, v) : t < v /\ t \in Range(nodes)
    /\ OutputTargets(x) \subseteq Range(nodes)

C15_ActiveNodesClosed ==
    /\ call.op = "none" => ActiveClosed(ActiveNodes(m_x), m_x)
    /\ Recomputed => ActiveClosed(m_active_nodes, m_x)
    /\ (/\ call.op = "evaluate" /\ ~call.err
        /\ StrictlyAscending(m_active_nodes)
        /\ ActiveClosed(m_active_nodes, m_x))
          => ~call.unstored

\* an evaluation of a closed active set in which an internal node feeds another
C15_Witness ==
    /\ call.op = "evaluate" /\ ~call.err
    /\ StrictlyAscending(m_active_nodes)
    /\ ActiveClosed(m_active_nodes, m_x)
    /\ call.evals >= 2
    /\ \E v \in Range(m_active_nodes) \cap InternalNodes :
          ConnectionTargets(m_x, v) \cap InternalNodes # {}

(***************************************************************************)
(* C16: levels-back window.  Each connection gene of an internal node in   *)
(* column i references an internal node in a column j with i-l <= j < i,   *)
(* or an input node, the latter only when i < l; each output gene          *)
(* references an internal node in a column j >= c-l, or an input node, the *)
(* latter only when l > c.                                                 *)
(***************************************************************************)
\* the column of internal node v
NodeColumn(v) == (v - m_n) \div m_r

C16_LevelsBackWindow ==
    /\ \A v \in InternalNodes : \A t \in ConnectionTargets(m_x, v) :
          LET i == NodeColumn(v)
          IN  \/ t \in InternalNodes /\ i - m_l <= NodeColumn(t) /\ NodeColumn(t) < i
              \/ t \in InputNodes /\ i < m_l
    /\ \A t \in OutputTargets(m_x) :
          \/ t \in InternalNodes /\ NodeColumn(t) >= m_c - m_l
          \/ t \in InputNodes /\ m_l > m_c

\* a mutation has returned on a grid with two columns and l = 1: the second
\* column and the outputs cannot reach the inputs, the first column can
C16_Witness ==
    /\ m_c = 2 /\ m_l = 1
    /\ call.op \in MutationOps /\ ~call.err /\ ChangedAGene(call)
    /\ \E t \in ConnectionTargets(m_x, m_n) : t \in InputNodes
    /\ \E t \in ConnectionTargets(m_x, m_n + m_r) : t \in InternalNodes

(***************************************************************************)
(* C18: the targeted operators change at most one gene, of the right kind: *)
(* mutate_active_fgene() only the function gene (gene 0 of the block) of   *)
(* an internal node that was active before the call,                       *)
(* mutate_active_cgene() only one of the arity connection genes of such a  *)
(* node, mutate_ogene() only one of the m output genes; every other gene   *)
(* is unchanged.                                                           *)
(***************************************************************************)
\* the gene positions (from 0) at which x and y differ
ChangedGenes(x, y) == {p \in 0..(Len(x) - 1) : At(x, p) # At(y, p)}

\* p is a gene of the block of an internal node listed in nodes
InActiveBlock(p, nodes) ==
    /\ p < (m_arity + 1) * m_r * m_c
    /\ (m_n + p \div (m_arity + 1)) \in Range(nodes)

C18_TargetedOperators ==
    [][LET changed == ChangedGenes(m_x, m_x')
       IN  /\ call'.op \in {"mutate_active_fgene", "mutate_active_cgene", "mutate_ogene"}
              => Len(m_x') = Len(m_x) /\ Cardinality(changed) <= 1
           /\ call'.op = "mutate_active_fgene"
              => \A p \in changed :
                    InActiveBlock(p, m_active_nodes) /\ p % (m_arity + 1) = 0
           /\ call'.op = "mutate_active_cgene"
              => \A p \in changed :
                    InActiveBlock(p, m_active_nodes) /\ p % (m_arity + 1) \in 1..m_arity
           /\ call'.op = "mutate_ogene"
              => \A p \in changed : p >= (m_arity + 1) * m_r * m_c]_vars

\* mutate_active_fgene() has changed the function gene of a node that is
\* active, on a grid that also has an inactive node
C18_Witness ==
    /\ call.op = "mutate_active_fgene" /\ ~call.err
    /\ Len(call.drawn) = 1
    /\ At(m_lb, call.drawn[1]) < At(m_ub, call.drawn[1])
    /\ InternalNodes \ Range(m_active_nodes) # {}

(***************************************************************************)
(* C19: after a successful mutate(idxs), every listed gene with lb < ub    *)
(* holds a value different from the one before the call, every listed gene *)
(* with lb == ub is unchanged and every unlisted gene is unchanged; this   *)
(* for any idxs, lists in which an index occurs more than once included.   *)
(***************************************************************************)
\* how many times index p occurs in idxs
Occurrences(idxs, p) == Cardinality({k \in 1..Len(idxs) : idxs[k] = p})

C19_ListedGenesChange ==
    [][(call'.op = "mutate_idxs" /\ ~call'.err)
       => /\ Len(m_x') = Len(m_x)
          /\ \A p \in 0..(Len(m_x) - 1) :
                IF Occurrences(call'.idxs, p) > 0 /\ At(m_lb, p) < At(m_ub, p)
                THEN At(m_x', p) # At(m_x, p)
                ELSE At(m_x', p) = At(m_x, p)]_vars

\* C19 as amended: the listed gene differs from before when it is listed
\* exactly once; a gene listed more than once is resampled once per
\* occurrence, each time away from the value it then holds, so it may end
\* with the value it had before the call, and does so when it is listed
\* twice and has exactly two values
C19_ListedOnceGenesChange ==
    [][(call'.op = "mutate_idxs" /\ ~call'.err)
       => /\ Len(m_x') = Len(m_x)
          /\ call'.drawn = call'.idxs
          /\ \A p \in 0..(Len(m_x) - 1) :
                LET times == Occurrences(call'.idxs, p)
                IN  /\ (times = 0 \/ At(m_lb, p) = At(m_ub, p)) => At(m_x', p) = At(m_x, p)
                    /\ (times = 1 /\ At(m_lb, p) < At(m_ub, p)) => At(m_x', p) # At(m_x, p)
                    /\ (times = 2 /\ At(m_ub, p) = At(m_lb, p) + 1) => At(m_x', p) = At(m_x, p)
                    /\ At(m_lb, p) <= At(m_x', p) /\ At(m_x', p) <= At(m_ub, p)]_vars

\* a mutate(idxs) has returned that listed one gene twice and another once,
\* both with two or more values
C19_Witness ==
    /\ call.op = "mutate_idxs" /\ ~call.err
    /\ \E p \in 0..(Len(m_x) - 1) :
          Occurrences(call.idxs, p) = 2 /\ At(m_lb, p) < At(m_ub, p)

(***************************************************************************)
(* C20: mutate_random(N), mutate_active(N), mutate_active_fgene(),         *)
(* mutate_active_cgene() and mutate_ogene() never report an index out of   *)
(* range and never index active_genes outside its range: active_genes is   *)
(* not empty, every position drawn into it is below its size, and every    *)
(* gene index handed to mutate(idx) is below len(get()); the connection    *)
(* gene block-start + k of mutate_active_cgene() stays inside the block of *)
(* the node chosen.                                                        *)
(***************************************************************************)
DrawingOps == {"mutate_random", "mutate_active", "mutate_active_fgene",
               "mutate_active_cgene", "mutate_ogene"}

C20_DrawnIndicesInRange ==
    /\ Len(m_active_genes) >= m_m /\ Len(m_active_genes) > 0
    /\ call.op \in DrawingOps
          => /\ ~call.err
             /\ call.posok
             /\ \A k \in 1..Len(call.drawn) : call.drawn[k] < Len(m_x)
    /\ call.op = "mutate_active_cgene"
          => \A k \in 1..Len(call.drawn) :
                /\ call.drawn[k] < (m_arity + 1) * m_r * m_c
                /\ call.drawn[k] % (m_arity + 1) # 0

\* mutate_active_cgene() has resampled the last connection gene of the last
\* node of the grid
C20_Witness ==
    /\ call.op = "mutate_active_cgene" /\ ~call.err
    /\ call.drawn = <<(m_arity + 1) * m_r * m_c - 1>>

(***************************************************************************)
(* C17: every public operation terminates.  The frontier loop of           *)
(* update_active() reaches an empty frontier for every in-bounds           *)
(* chromosome: the largest node id of the frontier strictly decreases each *)
(* round, so it runs at most c+1 rounds; and the rejection-sampling loop   *)
(* on a gene with lb < ub exits eventually under fair random draws.        *)
(***************************************************************************)
Largest(v) == CHOOSE a \in Range(v) : \A b \in Range(v) : b <= a

\* a round that is followed by another one lowers the largest id
FrontierDecreases ==
    (local.pc = "do" /\ local'.pc = "do" /\ local'.rounds = local.rounds + 1)
    => Largest(local'.current) < Largest(local.current)

C17_Terminates ==
    /\ [](local.rounds <= m_c + 1)
    /\ [][FrontierDecreases]_vars
    /\ (local.pc = "do") ~> (local.pc = "sort")
    /\ (local.pc = "draw") ~> (local.pc = "do")
    /\ (local.pc # "idle") ~> (local.pc = "idle")

\* the frontier loop has run c+1 rounds on a grid of two columns, in the
\* update_active() that follows the rejection loop of a mutate(idx)
C17_Witness ==
    /\ m_c = 2
    /\ local.pc = "sort"
    /\ local.rounds = m_c + 1
    /\ m_active_genes # <<>>

====
